---- MODULE Spec2Model ----
(***************************************************************************)
(* Model of pkg/server/ldap_server.go: the LDAP interaction-capture        *)
(* responder.  One connection is modelled; every handler is one atomic     *)
(* action whose effect on the outside world (responses written, TLS        *)
(* handshake, transport replacement, storage calls) is recorded, in        *)
(* program order, in the sequence `events`.                                *)
(*                                                                         *)
(* Go strings are modelled as sequences of one-character strings (or of    *)
(* opaque atoms where the content is never inspected); "" is << >>.        *)
(***************************************************************************)
EXTENDS Integers, Sequences, FiniteSets, TLC

VARIABLES
    Domain,     \* options.Domain, fixed at construction
    autoTls,    \* ldapServer.autoTls: "nil" or "set" (ListenAndServe, line 60)
    conn,       \* the client's transport: number of TLS layers over the socket
    requests,   \* the client's in-flight requests: message id -> status
    panicked,   \* a handler hit a Go runtime panic (nothing recovers it here)
    op,         \* the operation handled last: request fields and handler locals
    events      \* what the handler of `op` did, in program order

vars == <<Domain, autoTls, conn, requests, panicked, op, events>>

----------------------------------------------------------------------------
(* Bounds of the model *)

\* base objects are concatenations of at most MaxPieces pieces (Spec)
MaxPieces == 2
\* base objects are concatenations of at most MaxSearchPieces pieces (SearchSpec)
MaxSearchPieces == 4
\* StartTLS may be nested at most this many times on the connection
MaxTLSLayers == 1
\* message ids of in-flight requests are 1..MaxMsgID
MaxMsgID == 2
\* a Modify request carries at most MaxChanges changes
MaxChanges == 2

----------------------------------------------------------------------------
(* Program constants *)

\* len(part) == 33, line 126
TokenLen == 33
\* uniqueID[:20], line 137
CorrelationLen == 20

\* options.Token, the server-wide fallback key (line 402)
Token == <<"server-token">>
\* m.Client.Addr().String()
ClientAddr == <<"198.51.100.7:51234">>

----------------------------------------------------------------------------
(* Strings *)

Min(S) == CHOOSE x \in S : \A y \in S : x <= y
Max(S) == CHOOSE x \in S : \A y \in S : x >= y

Rep(c, n) == [i \in 1..n |-> c]

\* the character class [a-z0-9\-] of the pattern, line 118
LabelChars ==
    { "a","b","c","d","e","f","g","h","i","j","k","l","m","n","o","p","q","r",
      "s","t","u","v","w","x","y","z","0","1","2","3","4","5","6","7","8","9","-" }

\* strings.ReplaceAll(s, ".", "\\."), line 115
RECURSIVE ReplaceAllDots(_)
ReplaceAllDots(s) ==
    IF s = <<>> THEN <<>>
    ELSE IF Head(s) = "." THEN <<"\\", ".">> \o ReplaceAllDots(Tail(s))
    ELSE <<Head(s)>> \o ReplaceAllDots(Tail(s))

\* regexp.Compile of the part of the pattern after the class group: a backslash
\* makes the next character literal, a bare '.' matches any character, every
\* other character (of a host name) matches itself.
RECURSIVE Compile(_)
Compile(p) ==
    IF p = <<>> THEN <<>>
    ELSE IF Head(p) = "\\" /\ Len(p) >= 2
         THEN <<[any |-> FALSE, c |-> p[2]]>> \o Compile(SubSeq(p, 3, Len(p)))
    ELSE IF Head(p) = "."
         THEN <<[any |-> TRUE, c |-> "."]>> \o Compile(Tail(p))
    ELSE <<[any |-> FALSE, c |-> Head(p)]>> \o Compile(Tail(p))

\* PatternTail without the root domain: any label followed by a dot matches
PatternTailNoDomain(dom) == Compile(<<"\\", ".">>)

\* the atoms of "\\." + domain, lines 115-118
PatternTail(dom) == Compile(<<"\\", ".">> \o ReplaceAllDots(dom))

\* the atoms match s at positions pos .. pos+Len(atoms)-1
AtomsAt(s, pos, atoms) ==
    /\ pos + Len(atoms) - 1 <= Len(s)
    /\ \A k \in 1..Len(atoms) : atoms[k].any \/ s[pos + k - 1] = atoms[k].c

\* the positions where a match of (?:[a-z0-9\-]+)\.domain can end its class
\* group: a class character followed by a match of the rest of the pattern
GroupEnds(s, atoms) ==
    { j \in 1..Len(s) : s[j] \in LabelChars /\ AtomsAt(s, j + 1, atoms) }

\* the first index of the run of class characters that ends at j
RunStart(s, j) ==
    j + 2 - Min({ d \in 1..j : s[j + 1 - d] \notin LabelChars } \cup { j + 1 })

\* FindMatch taking the last match of the string instead of the first
FindMatchLast(s, atoms) ==
    LET E == GroupEnds(s, atoms)
    IN  IF E = {} THEN <<>>
        ELSE LET j == Max(E) IN SubSeq(s, RunStart(s, j), j + Len(atoms))

\* re.FindString(s), line 119: the leftmost match ("" if there is none); at
\* that start the greedy class group takes the longest run that lets the rest
\* of the pattern match
FindMatch(s, atoms) ==
    LET E == GroupEnds(s, atoms)
    IN  IF E = {} THEN <<>>
        ELSE LET i == Min({ RunStart(s, j) : j \in E })
                 j == Max({ k \in E : RunStart(s, k) = i })
             IN  SubSeq(s, i, j + Len(atoms))

FindString(s, dom) == FindMatch(s, PatternTail(dom))

\* strings.Split(s, "."), line 121 (s is non-empty there)
RECURSIVE Split(_)
Split(s) ==
    LET dots == { i \in 1..Len(s) : s[i] = "." }
    IN  IF dots = {} THEN <<s>>
        ELSE LET d == Min(dots)
             IN  <<SubSeq(s, 1, d - 1)>> \o Split(SubSeq(s, d + 1, Len(s)))

\* strings.Join(parts, "."), line 130
RECURSIVE Join(_)
Join(parts) ==
    IF parts = <<>> THEN <<>>
    ELSE IF Len(parts) = 1 THEN parts[1]
    ELSE parts[1] \o <<".">> \o Join(Tail(parts))

----------------------------------------------------------------------------
(* Identifier extraction of handleSearch, lines 115-134 *)

\* lines 119-122: parts stays nil when nothing matches
SearchParts(base, dom) ==
    LET match == FindString(base, dom)
    IN  IF match # <<>> THEN Split(match) ELSE <<>>

\* IsToken with <= for ==
IsTokenAtMost(part) == part # <<>> /\ Len(part) <= TokenLen

\* the condition of line 126
IsToken(part) == Len(part) = TokenLen

\* lines 124-134: the loop over parts; ids is <<uniqueID, fullID>>
RECURSIVE ScanParts(_, _, _)
ScanParts(parts, i, ids) ==
    IF i > Len(parts) THEN ids
    ELSE IF IsToken(parts[i])
         THEN ScanParts(parts, i + 1,
                  << parts[i],
                     IF i <= Len(parts) THEN Join(SubSeq(parts, 1, i)) ELSE parts[i] >>)
    ELSE ScanParts(parts, i + 1, ids)

ExtractIDs(base, dom) == ScanParts(SearchParts(base, dom), 1, << <<>>, <<>> >>)

----------------------------------------------------------------------------
(* Inputs *)

\* the configured root domains tried: an ordinary one, and one whose first
\* label happens to be as long as a correlation token (options.Domain is taken
\* as configured: its labels need not be lower-case)
Domains == { <<"i", ".", "o">>, Rep("D", TokenLen) \o <<".", "o">> }

\* the pieces base objects are built from: a 33-character label, a
\* 32-character label, a short label (which also lengthens a label it
\* follows), the separators '.' and '/', and '.' followed by the root domain
Pieces(dom) ==
    { Rep("a", TokenLen), Rep("b", TokenLen - 1), <<"x">>, <<".">>, <<"/">>,
      <<".">> \o dom }

RECURSIVE Bases(_, _)
Bases(n, dom) ==
    IF n = 0 THEN { <<>> }
    ELSE LET B == Bases(n - 1, dom)
         IN  B \cup { b \o p : b \in B, p \in Pieces(dom) }

MsgIDs == 1..MaxMsgID

----------------------------------------------------------------------------
(* Events: what a handler does to the outside world *)

\* w.Write(res): the response value as it is at the time of the call, written
\* through the transport the client has at that time
WriteEv(res, via) == [e |-> "write", res |-> res, via |-> via]
\* jsoniter Encode failed: gologger.Warning, nothing is stored
EncodeFailEv == [e |-> "encodeFailed"]
\* a call of the storage interface with its outcome
StoreEv(call, key, rec, ok) ==
    [e |-> "store", call |-> call, key |-> key, rec |-> rec, ok |-> ok]
\* tlsConn.Handshake()
HandshakeEv(ok) == [e |-> "handshake", ok |-> ok]
\* m.Client.SetConn(tlsConn)
SetConnEv == [e |-> "setconn"]
\* a Go runtime panic: the handler stops here
PanicEv(why) == [e |-> "panic", why |-> why]

Response(kind, code) == [kind |-> kind, code |-> code, name |-> "", diag |-> <<>>]

NoOp == [type |-> "none"]

----------------------------------------------------------------------------
(* logInteraction, lines 393-406 *)

Completed(interaction) ==
    [interaction EXCEPT !.Protocol = "ldap", !.Timestamp = "now"]

\* logInteraction calling the storage a second time when the first call failed
logInteractionRetry(interaction, encOK, storeOK) ==
    IF ~encOK THEN <<EncodeFailEv>>
    ELSE IF storeOK
         THEN <<StoreEv("AddInteractionWithId", Token, Completed(interaction), TRUE)>>
    ELSE << StoreEv("AddInteractionWithId", Token, Completed(interaction), FALSE),
            StoreEv("AddInteractionWithId", Token, Completed(interaction), TRUE) >>

logInteraction(interaction, encOK, storeOK) ==
    IF ~encOK THEN <<EncodeFailEv>>
    ELSE <<StoreEv("AddInteractionWithId", Token, Completed(interaction), storeOK)>>

\* the composite literal Interaction{RemoteAddress: ..., RawRequest: ...}
Interaction(remote, raw) ==
    [Protocol |-> "", UniqueID |-> <<>>, FullId |-> <<>>, RawRequest |-> raw,
     RemoteAddress |-> remote, Timestamp |-> ""]

----------------------------------------------------------------------------
(* State after construction (NewLDAPServer, ListenAndServe) *)

Init ==
    /\ Domain \in Domains
    /\ autoTls \in {"nil", "set"}
    /\ conn = 0
    /\ requests = [i \in MsgIDs |-> "none"]
    /\ panicked = FALSE
    /\ op = NoOp
    /\ events = <<>>

\* a handler runs when the connection has a request to dispatch
Ready == op.type = "none" /\ ~panicked

\* the handler has returned and the library reads the connection's next request
ReadNext ==
    /\ op.type # "none"
    /\ ~panicked
    /\ op' = NoOp
    /\ events' = <<>>
    /\ UNCHANGED <<Domain, autoTls, conn, requests, panicked>>

----------------------------------------------------------------------------
(* handleSearch, lines 85-162 *)

\* lines 93-99
SearchTranscript(base) ==
    << <<"Type=Search">>, <<"BaseDn=">> \o base, <<"Filter=">>, <<"FilterString=">>,
       <<"Attributes=">>, <<"TimeLimit=">> >>

\* lines 101-111: the synthetic entry, then the done response
SearchWrites(base, via) ==
    << WriteEv([kind |-> "SearchResultEntry", code |-> "",
                name |-> <<"cn=interactsh, ">> \o base, diag |-> <<>>], via),
       WriteEv(Response("SearchResultDone", "success"), via) >>

\* SearchIdentified handing the identified record to the fallback call
SearchIdentifiedUnderToken(uniqueID, fullID, raw, host, encOK, storeOK) ==
    IF uniqueID = <<>> THEN <<>>
    ELSE IF ~encOK THEN <<EncodeFailEv>>
    ELSE << StoreEv("AddInteractionWithId", Token,
                    [Protocol |-> "ldap", UniqueID |-> uniqueID, FullId |-> fullID,
                     RawRequest |-> raw, RemoteAddress |-> host, Timestamp |-> "now"],
                    storeOK) >>

\* lines 136-156: the identified record; uniqueID[:20] panics on a shorter string
SearchIdentified(uniqueID, fullID, raw, host, encOK, storeOK) ==
    IF uniqueID = <<>> THEN <<>>
    ELSE IF Len(uniqueID) < CorrelationLen
         THEN <<PanicEv("slice bounds out of range")>>
    ELSE IF ~encOK THEN <<EncodeFailEv>>
    ELSE << StoreEv("AddInteraction", SubSeq(uniqueID, 1, CorrelationLen),
                    [Protocol |-> "ldap", UniqueID |-> uniqueID, FullId |-> fullID,
                     RawRequest |-> raw, RemoteAddress |-> host, Timestamp |-> "now"],
                    storeOK) >>

Panics(evs) == \E k \in 1..Len(evs) : evs[k].e = "panic"

\* the outcomes of serialization and storage: storage is reached only when
\* serialization succeeded
Outcomes == { <<TRUE, TRUE>>, <<TRUE, FALSE>>, <<FALSE, FALSE>> }

\* handleSearch returning after the identified record when it was not stored
handleSearchStopOnFailure(base) ==
    /\ Ready
    /\ \E ids \in { ExtractIDs(base, Domain) } :
       \E o1 \in IF ids[1] = <<>> THEN { <<TRUE, TRUE>> } ELSE Outcomes, o2 \in Outcomes :
       \E ident \in { SearchIdentified(ids[1], ids[2], SearchTranscript(base),
                                        ClientAddr, o1[1], o1[2]) } :
          /\ op' = [type |-> "Search", base |-> base, uniqueID |-> ids[1],
                    fullID |-> ids[2]]
          /\ events' = SearchWrites(base, conn) \o ident \o
                         (IF Panics(ident) \/ (ids[1] # <<>> /\ o1 # <<TRUE, TRUE>>)
                          THEN <<>>
                          ELSE logInteraction(Interaction(ClientAddr, SearchTranscript(base)),
                                              o2[1], o2[2]))
          /\ panicked' = Panics(ident)
          /\ UNCHANGED <<Domain, autoTls, conn, requests>>

\* o1 and o2 are the outcomes of the two serialize-and-store steps; the first
\* is taken only when an identifier was extracted
handleSearch(base) ==
    /\ Ready
    /\ \E ids \in { ExtractIDs(base, Domain) } :
       \E o1 \in IF ids[1] = <<>> THEN { <<TRUE, TRUE>> } ELSE Outcomes, o2 \in Outcomes :
       \E ident \in { SearchIdentified(ids[1], ids[2], SearchTranscript(base),
                                        ClientAddr, o1[1], o1[2]) } :
          /\ op' = [type |-> "Search", base |-> base, uniqueID |-> ids[1],
                    fullID |-> ids[2]]
          /\ events' = SearchWrites(base, conn) \o ident \o
                         (IF Panics(ident) THEN <<>>
                          ELSE logInteraction(Interaction(ClientAddr, SearchTranscript(base)),
                                              o2[1], o2[2]))
          /\ panicked' = Panics(ident)
          /\ UNCHANGED <<Domain, autoTls, conn, requests>>

Search(n) == Ready /\ \E base \in Bases(n, Domain) : handleSearch(base)

----------------------------------------------------------------------------
(* The handlers that answer with one fixed response, then record *)

\* Reply recording the interaction before it writes the response
ReplyRecordFirst(request, res, raw, o) ==
    /\ Ready
    /\ op' = request
    /\ events' = logInteraction(Interaction(ClientAddr, raw), o[1], o[2]) \o
                   <<WriteEv(res, conn)>>
    /\ UNCHANGED <<Domain, autoTls, conn, requests, panicked>>

\* w.Write(res) followed by logInteraction of the transcript: the shape of
\* lines 76-81, 189-199, 211-216, 232-237, 248-253, 283-288, 324-329, 342-347
Reply(request, res, raw, o) ==
    /\ Ready
    /\ op' = request
    /\ events' = <<WriteEv(res, conn)>> \o
                   logInteraction(Interaction(ClientAddr, raw), o[1], o[2])
    /\ UNCHANGED <<Domain, autoTls, conn, requests, panicked>>

\* request field values
Strs == { <<>>, <<"v">> }

\* handleBind refusing an empty password
handleBindChecked(choice, name, pass, o) ==
    Reply([type |-> "Bind", choice |-> choice, name |-> name, pass |-> pass],
          Response("BindResponse", IF pass = <<>> THEN "invalidCredentials" ELSE "success"),
          << <<"Type=Bind">>, <<"AuthenticationChoice=", choice>>,
             <<"User=">> \o name, <<"Pass=">> \o pass >>, o)

\* handleBind, lines 68-82
handleBind(choice, name, pass, o) ==
    Reply([type |-> "Bind", choice |-> choice, name |-> name, pass |-> pass],
          Response("BindResponse", "success"),
          << <<"Type=Bind">>, <<"AuthenticationChoice=", choice>>,
             <<"User=">> \o name, <<"Pass=">> \o pass >>, o)

Bind ==
    /\ Ready
    /\ \E choice \in {"simple", "sasl"}, name \in Strs, pass \in Strs, o \in Outcomes :
          handleBind(choice, name, pass, o)

\* handleNotFound without the case for Bind requests
handleNotFoundNoBindCase(opType, o) ==
    Reply([type |-> "NotFound", opType |-> opType],
          [Response("LDAPResult", "unwillingToPerform") EXCEPT
               !.diag = <<"Operation not implemented by server">>],
          << <<"Type=", opType>> >>, o)

\* handleNotFound, lines 181-200; opType is m.ProtocolOpType()
handleNotFound(opType, o) ==
    Reply([type |-> "NotFound", opType |-> opType],
          IF opType = "BindRequest"
          THEN [Response("BindResponse", "success") EXCEPT
                    !.diag = <<"Default binding behavior set to return Success">>]
          ELSE [Response("LDAPResult", "unwillingToPerform") EXCEPT
                    !.diag = <<"Operation not implemented by server">>],
          << <<"Type=", opType>> >>, o)

NotFound ==
    /\ Ready
    /\ \E opType \in {"BindRequest", "ModifyDNRequest", "UnbindRequest"}, o \in Outcomes :
          handleNotFound(opType, o)

\* handleCompare, lines 203-217
handleCompare(attr, val, o) ==
    Reply([type |-> "Compare", attr |-> attr, val |-> val],
          Response("CompareResponse", "compareTrue"),
          << <<"Type=Compare">>, <<"Attribute name to compare=">> \o attr,
             <<"Attribute value expected=">> \o val >>, o)

Compare ==
    /\ Ready
    /\ \E attr \in Strs, val \in Strs, o \in Outcomes : handleCompare(attr, val, o)

\* lines 225-229: one line per value of each attribute
RECURSIVE AttributeLines(_)
AttributeLines(attrs) ==
    IF attrs = <<>> THEN <<>>
    ELSE [k \in 1..Len(attrs[1].vals) |->
              <<"Attribute Name=", attrs[1].type, " Attribute Value=", attrs[1].vals[k]>>]
         \o AttributeLines(Tail(attrs))

\* handleAdd, lines 220-238
handleAdd(entry, attrs, o) ==
    Reply([type |-> "Add", entry |-> entry, attrs |-> attrs],
          Response("AddResponse", "success"),
          << <<"Type=Add">>, <<"Entity=">> \o entry >> \o AttributeLines(attrs), o)

AttrLists ==
    { <<>>, <<[type |-> "cn", vals |-> <<"v1", "v2">>]>>,
      <<[type |-> "cn", vals |-> <<>>], [type |-> "sn", vals |-> <<"v1">>]>> }

Add ==
    /\ Ready
    /\ \E entry \in Strs, attrs \in AttrLists, o \in Outcomes : handleAdd(entry, attrs, o)

\* handleWhoAmI, lines 319-330
handleWhoAmI(o) ==
    Reply([type |-> "WhoAmI", name |-> "NoticeOfWhoAmI"], Response("ExtendedResponse", "success"),
          << <<"Type=WhoAmI">> >>, o)

WhoAmI == Ready /\ \E o \in Outcomes : handleWhoAmI(o)

\* handleExtended, lines 333-348
handleExtended(name, value, o) ==
    Reply([type |-> "Extended", name |-> name, value |-> value],
          Response("ExtendedResponse", "success"),
          << <<"Type=Extended">>, <<"Name=", name>>, <<"Value=">> \o value >>, o)

Extended ==
    /\ Ready
    /\ \E name \in {"1.3.6.1.4.1.4203.1.11.1", "1.3.6.1.1.8"}, value \in Strs,
          o \in Outcomes :
          handleExtended(name, value, o)

----------------------------------------------------------------------------
(* handleModify, lines 257-289 *)

\* OperationString with the cases for Delete and Replace exchanged
OperationStringExchanged(operation) ==
    CASE operation = "ModifyRequestChangeOperationAdd"     -> "Add"
      [] operation = "ModifyRequestChangeOperationDelete"  -> "Replace"
      [] operation = "ModifyRequestChangeOperationReplace" -> "Delete"
      [] OTHER -> ""

\* lines 266-273: the switch has no default, operationString stays ""
OperationString(operation) ==
    CASE operation = "ModifyRequestChangeOperationAdd"     -> "Add"
      [] operation = "ModifyRequestChangeOperationDelete"  -> "Delete"
      [] operation = "ModifyRequestChangeOperationReplace" -> "Replace"
      [] OTHER -> ""

\* line 279
ChangeLine(change) ==
    <<"Operation=", OperationString(change.operation), " Attribute=", change.type,
      " Values=[", change.vals, "]">>

handleModify(object, changes, o) ==
    Reply([type |-> "Modify", object |-> object, changes |-> changes],
          Response("ModifyResponse", "success"),
          << <<"Type=Modify">>, <<"Entity=">> \o object >> \o
             [k \in 1..Len(changes) |-> ChangeLine(changes[k])], o)

\* the operation of a change is an ENUMERATED value of the request: the three
\* the protocol defines, or any other number
Changes ==
    { [type |-> "cn", vals |-> "v1 - v2", operation |-> x] :
        x \in { "ModifyRequestChangeOperationAdd", "ModifyRequestChangeOperationDelete",
                "ModifyRequestChangeOperationReplace", "other" } }

RECURSIVE SeqsUpTo(_, _)
SeqsUpTo(S, n) ==
    IF n = 0 THEN { <<>> }
    ELSE LET B == SeqsUpTo(S, n - 1) IN B \cup { Append(b, x) : b \in B, x \in S }

Modify ==
    /\ Ready
    /\ \E object \in Strs, changes \in SeqsUpTo(Changes, MaxChanges), o \in Outcomes :
          handleModify(object, changes, o)

----------------------------------------------------------------------------
(* handleDelete, lines 240-254 *)

\* line 242 asks the Delete message for its Compare request.  The library's
\* getter is a type assertion on the message's operation: on a Delete message it
\* panics, or (with a checked assertion) yields an empty Compare request.
handleDelete(entry, getter, o) ==
    IF getter = "panic"
    THEN /\ Ready
         /\ op' = [type |-> "Delete", entry |-> entry]
         /\ events' = <<PanicEv("interface conversion")>>
         /\ panicked' = TRUE
         /\ UNCHANGED <<Domain, autoTls, conn, requests>>
    ELSE Reply([type |-> "Delete", entry |-> entry],
               Response("DelResponse", "success"),
               << <<"Type=Delete">>, <<"Entity=">> >>, o)

Delete ==
    /\ Ready
    /\ \E entry \in Strs, getter \in {"panic", "zero"}, o \in Outcomes :
          /\ (getter = "panic" => o = <<TRUE, TRUE>>)
          /\ handleDelete(entry, getter, o)

----------------------------------------------------------------------------
(* handleAbandon, lines 165-178 *)

\* AbandonRequest abandoning every request in flight
AbandonRequestAll(reqs, target) ==
    IF target \in DOMAIN reqs /\ reqs[target] # "none"
    THEN [i \in DOMAIN reqs |-> IF reqs[i] # "none" THEN "abandoned" ELSE "none"]
    ELSE reqs

\* lines 170-172: GetMessageByID finds the requests in flight on the client
AbandonRequest(reqs, target) ==
    IF target \in DOMAIN reqs /\ reqs[target] # "none"
    THEN [reqs EXCEPT ![target] = "abandoned"]
    ELSE reqs

handleAbandon(target, o) ==
    /\ Ready
    /\ op' = [type |-> "Abandon", target |-> target, before |-> requests]
    /\ requests' = AbandonRequest(requests, target)
    /\ events' = logInteraction(Interaction(ClientAddr, << <<"Type=Abandon">> >>),
                                o[1], o[2])
    /\ UNCHANGED <<Domain, autoTls, conn, panicked>>

\* the id 0 is the id of no request
Abandon ==
    /\ Ready
    /\ \E target \in MsgIDs \cup {0}, o \in Outcomes : handleAbandon(target, o)

\* a request of the client starts being processed
Arrive ==
    /\ ~panicked
    /\ \E id \in MsgIDs :
        /\ requests[id] = "none"
        /\ requests' = [requests EXCEPT ![id] = "inflight"]
    /\ UNCHANGED <<Domain, autoTls, conn, panicked, op, events>>

\* a request of the client is done and leaves the client's list
Finish ==
    /\ ~panicked
    /\ \E id \in MsgIDs :
        /\ requests[id] # "none"
        /\ requests' = [requests EXCEPT ![id] = "none"]
    /\ UNCHANGED <<Domain, autoTls, conn, panicked, op, events>>

----------------------------------------------------------------------------
(* getTLSconfig, lines 439-462 *)

\* provider is what ldapServer.autoTls.GetCertificateFunc()(nil) does when it
\* is reached, which is when autoTls is nil (line 447): the call dereferences
\* a nil pointer and panics, or returns an error ("cert", a certificate, is
\* what a provider that exists returns).
\* The err of line 447 is a new variable of the if statement: the err tested
\* at line 451 is the one of line 445.
getTLSconfig(auto, provider) ==
    IF auto # "nil"
    THEN \* line 445: the embedded pair parses
         [panic |-> FALSE, err |-> "nil", cert |-> "localhostCert",
          MinVersion |-> "VersionSSL30", MaxVersion |-> "VersionTLS12",
          ServerName |-> "127.0.0.1"]
    ELSE IF provider = "panic"
    THEN [panic |-> TRUE, err |-> "nil", cert |-> "none",
          MinVersion |-> "", MaxVersion |-> "", ServerName |-> ""]
    ELSE [panic |-> FALSE, err |-> "nil",
          cert |-> IF provider = "cert" THEN "autoCert" ELSE "zero",
          MinVersion |-> "VersionSSL30", MaxVersion |-> "VersionTLS12",
          ServerName |-> "127.0.0.1"]

----------------------------------------------------------------------------
(* handleStartTLS, lines 292-316 *)

\* err.Error() of a failed handshake
HandshakeError == "tls: handshake failure"

\* lines 298-299
StartTLSResponse ==
    [Response("ExtendedResponse", "success") EXCEPT !.name = "NoticeOfStartTLS"]

\* StartTLSFailure without SetResultCode
StartTLSFailureNoCode(res, err) ==
    [res EXCEPT !.diag = <<"StartTLS Handshake error : \"", err, "\"">>]

\* lines 304-305, applied to the response value already written once
StartTLSFailure(res, err) ==
    [res EXCEPT !.diag = <<"StartTLS Handshake error : \"", err, "\"">>,
                !.code = "operationsError"]

\* the events of the handler after getTLSconfig returned; hsOK is the outcome
\* of tlsConn.Handshake(), o the outcome of serialization and storage
StartTLSEvents(via, hsOK, o) ==
    IF ~hsOK
    THEN << WriteEv(StartTLSResponse, via), HandshakeEv(FALSE),
            WriteEv(StartTLSFailure(StartTLSResponse, HandshakeError), via) >>
    ELSE << WriteEv(StartTLSResponse, via), HandshakeEv(TRUE), SetConnEv >> \o
         logInteraction(Interaction(ClientAddr,
                            << <<"Type=StartTLS">>, <<"Result=StartTLS OK">> >>),
                        o[1], o[2])

\* SetConn before the handshake's error is looked at
SetConnAlways(via, hsOK) == via + 1

\* lines 302-309: SetConn is reached only when the handshake returned no error
SetConn(via, hsOK) == IF hsOK THEN via + 1 ELSE via

handleStartTLS(provider, hsOK, o) ==
    /\ Ready
    /\ \E cfg \in { getTLSconfig(autoTls, provider) } :
          /\ op' = [type |-> "StartTLS", config |-> cfg,
                    handshake |-> IF cfg.panic THEN "none"
                                  ELSE IF hsOK THEN "ok" ELSE "failed"]
          /\ events' = IF cfg.panic THEN <<PanicEv("nil pointer dereference")>>
                       ELSE StartTLSEvents(conn, hsOK, o)
          /\ panicked' = cfg.panic
          /\ conn' = IF cfg.panic THEN conn ELSE SetConn(conn, hsOK)
    /\ UNCHANGED <<Domain, autoTls, requests>>

\* the provider is called only when autoTls is nil, and then on a nil pointer;
\* a handshake succeeds only with a certificate that has a key; the model
\* stops nesting TLS at MaxTLSLayers layers
StartTLS ==
    /\ Ready
    /\ \E provider \in {"none", "panic", "err"}, hsOK \in BOOLEAN, o \in Outcomes :
          /\ (provider = "none") <=> (autoTls # "nil")
          /\ hsOK => /\ conn < MaxTLSLayers
                     /\ provider = "none"
          /\ ~hsOK => o = <<TRUE, TRUE>>
          /\ handleStartTLS(provider, hsOK, o)

----------------------------------------------------------------------------
(* The logger interface, lines 350-391 *)

\* fmt.Sprintf(f, v...) for a format made of literal pieces and %v verbs
RECURSIVE Sprintf(_, _)
Sprintf(f, v) ==
    IF f = <<>>
    THEN IF v = <<>> THEN <<>> ELSE <<"%!(EXTRA ">> \o v \o <<")">>
    ELSE IF Head(f) = "%v"
         THEN IF v = <<>> THEN <<"%!v(MISSING)">> \o Sprintf(Tail(f), v)
              ELSE <<Head(v)>> \o Sprintf(Tail(f), Tail(v))
    ELSE <<Head(f)>> \o Sprintf(Tail(f), v)

\* handleLog giving the record the address of the client
handleLogWithAddress(f, v, o) ==
    logInteraction(Interaction(ClientAddr, << IF f # <<>> THEN Sprintf(f, v) ELSE v >>),
                   o[1], o[2])

\* handleLog, lines 379-391: with an empty format the values are concatenated
handleLog(f, v, o) ==
    logInteraction(Interaction(<<>>, << IF f # <<>> THEN Sprintf(f, v) ELSE v >>),
                   o[1], o[2])

\* lines 350-377: Fatalf, Panicf and Printf pass their format on, the other
\* methods pass "%v"
LogMethod(method, format, v, o) ==
    /\ Ready
    /\ op' = [type |-> "Log", method |-> method, format |-> format, v |-> v]
    /\ events' = handleLog(IF method \in {"Fatalf", "Panicf", "Printf"}
                           THEN format ELSE <<"%v">>, v, o)
    /\ UNCHANGED <<Domain, autoTls, conn, requests, panicked>>

Log ==
    /\ Ready
    /\ \E method \in {"Fatal", "Fatalf", "Fatalln", "Panic", "Panicf", "Panicln",
                      "Print", "Printf", "Println"},
          format \in { <<>>, <<"%v">>, <<"client: ", "%v">> },
          v \in { <<>>, <<"a1">>, <<"a1", "a2">> }, o \in Outcomes :
          /\ (method \notin {"Fatalf", "Panicf", "Printf"} => format = <<>>)
          /\ LogMethod(method, format, v, o)

----------------------------------------------------------------------------
(* The server: one connection, its requests handled one after the other *)

Next ==
    \/ ReadNext
    \/ Arrive
    \/ Finish
    \/ Bind
    \/ NotFound
    \/ Abandon
    \/ Compare
    \/ Add
    \/ StartTLS
    \/ WhoAmI
    \/ Extended
    \/ Delete
    \/ Modify
    \/ Search(MaxPieces)
    \/ Log

Spec == Init /\ [][Next]_vars

----------------------------------------------------------------------------
(* The Search requests of a connection alone, over longer base objects *)

InitSearch == Init /\ autoTls = "set"

NextSearch == ReadNext \/ Search(MaxSearchPieces)

SearchSpec == InitSearch /\ [][NextSearch]_vars

----------------------------------------------------------------------------
(* What the claims speak about *)

IsWrite(ev) == ev.e = "write"
IsStore(ev) == ev.e = "store"
Writes == SelectSeq(events, IsWrite)
Stores == SelectSeq(events, IsStore)

\* serialization and storage succeeded wherever they were reached
AllStored == \A k \in 1..Len(events) :
                 /\ events[k].e # "encodeFailed"
                 /\ events[k].e = "store" => events[k].ok

\* the handler ran to its end
Returned == \A k \in 1..Len(events) : events[k].e # "panic"

\* the operations of the protocol (the logger's calls are not operations)
Operations ==
    { "Bind", "Search", "Abandon", "Compare", "Add", "Delete", "Modify", "StartTLS",
      "WhoAmI", "Extended", "NotFound" }

\* s continues after position j with '.' and the root domain
DotDomainAt(s, j, dom) ==
    /\ j + 1 + Len(dom) <= Len(s)
    /\ SubSeq(s, j + 1, j + 1 + Len(dom)) = <<".">> \o dom

\* the ends of the labels of s that are followed by '.' and the root domain
Occurrences(s, dom) ==
    { j \in 1..Len(s) : s[j] \in LabelChars /\ DotDomainAt(s, j, dom) }

\* a label of exactly TokenLen characters ends at j
TokenEndsAt(s, j) ==
    /\ j >= TokenLen
    /\ \A k \in (j - TokenLen + 1)..j : s[k] \in LabelChars
    /\ j = TokenLen \/ s[j - TokenLen] \notin LabelChars

TokenAt(s, j) == SubSeq(s, j - TokenLen + 1, j)

\* a label of the root domain is as long as a token
DomainHasTokenLabel == \E k \in 1..Len(Split(Domain)) : Len(Split(Domain)[k]) = TokenLen

----------------------------------------------------------------------------
(* C1 *)

\* C1: every operation whose handler ran to its end, with serialization and
\* storage succeeding, made exactly one storage call (AddInteraction and
\* AddInteractionWithId counted together)
C1_ExactlyOneStorageCall ==
    (op.type \in Operations /\ Returned /\ AllStored) => Len(Stores) = 1

----------------------------------------------------------------------------
(* C2 *)

\* C2 as claimed: wherever in the base object a 33-character label is followed
\* by '.' and the root domain, that label is the uniqueID
C2_AnyOccurrenceExtracted ==
    op.type = "Search" =>
        \A j \in Occurrences(op.base, Domain) :
            TokenEndsAt(op.base, j) => op.uniqueID = TokenAt(op.base, j)

\* C2 as amended: the first label of the base object that is followed by '.'
\* and the root domain decides: if it has 33 characters it is the uniqueID, if
\* not the uniqueID is empty (the root domain having no 33-character label)
C2_FirstOccurrenceExtracted ==
    (op.type = "Search" /\ ~DomainHasTokenLabel /\ Occurrences(op.base, Domain) # {}) =>
        LET first == Min(Occurrences(op.base, Domain))
        IN  IF TokenEndsAt(op.base, first)
            THEN op.uniqueID = TokenAt(op.base, first)
            ELSE op.uniqueID = <<>>

\* a token found although text precedes it and a second label.domain follows
C2_Witness ==
    /\ op.type = "Search"
    /\ ~DomainHasTokenLabel
    /\ Cardinality(Occurrences(op.base, Domain)) >= 2
    /\ Min(Occurrences(op.base, Domain)) > TokenLen
    /\ TokenEndsAt(op.base, Min(Occurrences(op.base, Domain)))
    /\ op.uniqueID = TokenAt(op.base, Min(Occurrences(op.base, Domain)))

----------------------------------------------------------------------------
(* C3 *)

\* labels of class characters joined by single dots
IsLabelChain(p) ==
    /\ p # <<>>
    /\ \A k \in 1..Len(p) : p[k] \in LabelChars \cup {"."}
    /\ p[1] # "." /\ p[Len(p)] # "."
    /\ \A k \in 1..(Len(p) - 1) : ~(p[k] = "." /\ p[k + 1] = ".")

\* the part of the base object before '.' and the root domain
BeforeDomain(s, dom) == SubSeq(s, 1, Len(s) - Len(dom) - 1)

\* the base object is leading labels (possibly none), the token, the root domain
IsProbeName(s, dom) ==
    /\ Len(s) > Len(dom) + 1
    /\ DotDomainAt(s, Len(s) - Len(dom) - 1, dom)
    /\ IsLabelChain(BeforeDomain(s, dom))
    /\ TokenEndsAt(s, Len(s) - Len(dom) - 1)

\* C3: for a base object "<leading labels>.<token>.<domain>" the fullID, and
\* the FullId of the identified record, is "<leading labels>.<token>"; with no
\* leading labels it is the token
C3_FullIdKeepsLeadingLabels ==
    (op.type = "Search" /\ IsProbeName(op.base, Domain)) =>
        /\ op.fullID = BeforeDomain(op.base, Domain)
        /\ \A k \in 1..Len(Stores) :
              Stores[k].call = "AddInteraction" =>
                  Stores[k].rec.FullId = BeforeDomain(op.base, Domain)

----------------------------------------------------------------------------
(* C4 *)

\* C4: a base object with no label followed by '.' and the root domain yields
\* empty uniqueID and fullID, no AddInteraction call, and only the record
\* stored under the fallback token
C4_NoMatchNoIdentifier ==
    (op.type = "Search" /\ Occurrences(op.base, Domain) = {}) =>
        /\ op.uniqueID = <<>>
        /\ op.fullID = <<>>
        /\ \A k \in 1..Len(Stores) :
              /\ Stores[k].call = "AddInteractionWithId"
              /\ Stores[k].key = Token
              /\ Stores[k].rec.UniqueID = <<>>
        /\ Len(Stores) <= 1
        /\ AllStored => Len(Stores) = 1

\* a base object that holds a token and the root domain, but not joined
C4_Witness ==
    /\ op.type = "Search"
    /\ Occurrences(op.base, Domain) = {}
    /\ \E j \in 1..Len(op.base) : TokenEndsAt(op.base, j)
    /\ Len(op.base) > TokenLen + Len(Domain)
    /\ Len(Stores) = 1

----------------------------------------------------------------------------
(* C5 *)

\* C5: every AddInteraction call of handleSearch has as key the first 20
\* characters of a uniqueID of 33 characters, and the slice never fails
C5_KeyIsFirst20 ==
    op.type = "Search" =>
        /\ \A k \in 1..Len(events) : events[k].e # "panic"
        /\ op.uniqueID # <<>> => Len(op.uniqueID) = TokenLen
        /\ \A k \in 1..Len(Stores) :
              Stores[k].call = "AddInteraction" =>
                  /\ Stores[k].rec.UniqueID = op.uniqueID
                  /\ Len(Stores[k].rec.UniqueID) = TokenLen
                  /\ Len(Stores[k].key) = CorrelationLen
                  /\ \A c \in 1..CorrelationLen :
                        Stores[k].key[c] = Stores[k].rec.UniqueID[c]

C5_Witness ==
    /\ op.type = "Search"
    /\ \E k \in 1..Len(Stores) : Stores[k].call = "AddInteraction"

----------------------------------------------------------------------------
(* C6 *)

\* C6: a record handed to AddInteraction has a UniqueID; a record handed to
\* AddInteractionWithId is keyed by the server's token and has neither UniqueID
\* nor FullId; no record with a UniqueID is stored under the token
C6_RoutingByUniqueID ==
    \A k \in 1..Len(Stores) :
        /\ Stores[k].call \in {"AddInteraction", "AddInteractionWithId"}
        /\ Stores[k].call = "AddInteraction" => Stores[k].rec.UniqueID # <<>>
        /\ Stores[k].call = "AddInteractionWithId" =>
              /\ Stores[k].key = Token
              /\ Stores[k].rec.UniqueID = <<>>
              /\ Stores[k].rec.FullId = <<>>
        /\ Stores[k].key = Token => Stores[k].rec.UniqueID = <<>>

\* a Search that stored both of its records
C6_Witness ==
    /\ op.type = "Search"
    /\ Len(Stores) = 2
    /\ Stores[1].call = "AddInteraction"
    /\ Stores[2].call = "AddInteractionWithId"

----------------------------------------------------------------------------
(* C7 *)

HasEvent(evs, e) == \E k \in 1..Len(evs) : evs[k].e = e

\* C7: the connection's transport changes exactly in the steps in which
\* handleStartTLS ran with a successful handshake, where SetConn puts one TLS
\* layer on it; after a failed handshake it is the transport of before; and
\* every response of every handler goes through the transport the connection
\* has at that time (the one of before until SetConn, the new one after it)
C7_TransportReplacedIffHandshakeOk ==
    [][ /\ (conn' # conn) <=>
              (op.type = "none" /\ op'.type = "StartTLS" /\ op'.handshake = "ok")
        /\ (op.type = "none" /\ op'.type = "StartTLS") =>
              /\ (op'.handshake = "ok") <=> HasEvent(events', "setconn")
              /\ op'.handshake = "ok" => conn' = conn + 1
              /\ op'.handshake = "failed" => conn' = conn /\ Len(SelectSeq(events', IsWrite)) = 2
        /\ (op.type = "none" /\ op'.type # "none") =>
              \A k \in 1..Len(events') :
                  events'[k].e = "write" =>
                      events'[k].via = IF HasEvent(SubSeq(events', 1, k - 1), "setconn")
                                       THEN conn' ELSE conn
      ]_vars

\* a StartTLS whose handshake failed on a connection that an earlier StartTLS
\* had upgraded: both responses went through that TLS transport
C7_Witness ==
    /\ op.type = "StartTLS"
    /\ op.handshake = "failed"
    /\ conn = 1
    /\ Len(Writes) = 2
    /\ Writes[2].via = 1

----------------------------------------------------------------------------
(* C8 *)

\* the index of the first event of kind e
FirstEvent(evs, e) == Min({ k \in 1..Len(evs) : evs[k].e = e })

IsIn(x, seq) == \E k \in 1..Len(seq) : seq[k] = x

----------------------------------------------------------------------------
(* C9 *)

\* C9: in the events of an operation no response is written after a record
\* was serialized or handed to storage
C9_RepliesBeforeStorage ==
    \A i \in 1..Len(events), j \in 1..Len(events) :
        (events[i].e \in {"store", "encodeFailed"} /\ events[j].e = "write") => j < i

\* a Search: two responses, then two storage calls
C9_Witness ==
    /\ op.type = "Search"
    /\ Len(Writes) = 2
    /\ Len(Stores) = 2
    /\ events[3].e = "store"

----------------------------------------------------------------------------
(* C10 *)

\* C10: getTLSconfig returns, without failing, a configuration for SSL 3.0 to
\* TLS 1.2 whose certificate is the provider's when autoTls is configured and
\* the embedded localhost certificate when it is not
C10_CertificateSelection ==
    op.type = "StartTLS" =>
        /\ ~op.config.panic
        /\ op.config.err = "nil"
        /\ op.config.MinVersion = "VersionSSL30"
        /\ op.config.MaxVersion = "VersionTLS12"
        /\ autoTls # "nil" => op.config.cert = "autoCert"
        /\ autoTls = "nil" => op.config.cert = "localhostCert"

----------------------------------------------------------------------------
(* C11 *)

\* serialization succeeded wherever it was reached
Encoded == \A k \in 1..Len(events) : events[k].e # "encodeFailed"

\* every storage call is the fallback call under the server's token
OnlyFallback ==
    \A k \in 1..Len(Stores) :
        Stores[k].call = "AddInteractionWithId" /\ Stores[k].key = Token

\* C11: the not-found handler writes exactly one response: a Bind response with
\* result success for a Bind request, and for every other operation type a
\* response with result unwillingToPerform and the diagnostic message
\* "Operation not implemented by server"; it hands one record to the fallback
\* call (none when the record could not be serialized)
C11_NotFoundResponses ==
    op.type = "NotFound" =>
        /\ Len(Writes) = 1
        /\ IF op.opType = "BindRequest"
           THEN /\ Writes[1].res.kind = "BindResponse"
                /\ Writes[1].res.code = "success"
           ELSE /\ Writes[1].res.code = "unwillingToPerform"
                /\ Writes[1].res.diag = <<"Operation not implemented by server">>
        /\ Len(Stores) = (IF Encoded THEN 1 ELSE 0)
        /\ OnlyFallback

\* a Bind request that reached the not-found handler
C11_Witness ==
    /\ op.type = "NotFound"
    /\ op.opType = "BindRequest"
    /\ Len(Writes) = 1
    /\ Writes[1].res.code = "success"
    /\ Len(Stores) = 1

----------------------------------------------------------------------------
(* C12 *)

IsOperationLine(line) == line # <<>> /\ line[1] = "Operation="

\* the names of the three kinds of change
KindName(operation) ==
    CASE operation = "ModifyRequestChangeOperationAdd"     -> "Add"
      [] operation = "ModifyRequestChangeOperationDelete"  -> "Delete"
      [] operation = "ModifyRequestChangeOperationReplace" -> "Replace"

KnownKinds ==
    { "ModifyRequestChangeOperationAdd", "ModifyRequestChangeOperationDelete",
      "ModifyRequestChangeOperationReplace" }

\* C12: the transcript recorded for a Modify request with n changes has exactly
\* n "Operation=" lines, the i-th of them is the line after the first two plus
\* i-1 others and names the kind of the i-th change when that is Add, Delete or
\* Replace; the one response is a Modify response with result success
C12_ModifyTranscript ==
    op.type = "Modify" =>
        /\ Len(Writes) = 1
        /\ Writes[1].res.kind = "ModifyResponse"
        /\ Writes[1].res.code = "success"
        /\ \A k \in 1..Len(Stores) :
              LET raw == Stores[k].rec.RawRequest
              IN  /\ Len(SelectSeq(raw, IsOperationLine)) = Len(op.changes)
                  /\ Len(raw) = Len(op.changes) + 2
                  /\ \A i \in 1..Len(op.changes) :
                        /\ IsOperationLine(raw[i + 2])
                        /\ op.changes[i].operation \in KnownKinds =>
                              raw[i + 2][2] = KindName(op.changes[i].operation)

\* a Delete change followed by a Replace change, recorded
C12_Witness ==
    /\ op.type = "Modify"
    /\ Len(op.changes) = MaxChanges
    /\ op.changes[1].operation = "ModifyRequestChangeOperationDelete"
    /\ op.changes[MaxChanges].operation = "ModifyRequestChangeOperationReplace"
    /\ Len(Stores) = 1
    /\ Stores[1].rec.RawRequest[3][2] = "Delete"

----------------------------------------------------------------------------
(* C13 *)

\* a serialization or a storage call of the operation failed
Failed ==
    \E k \in 1..Len(events) :
        \/ events[k].e = "encodeFailed"
        \/ events[k].e = "store" /\ ~events[k].ok

\* the number of responses an operation of this type writes when all is stored
FullReplies(type) ==
    CASE type = "Search" -> 2
      [] type \in {"Abandon", "Log"} -> 0
      [] OTHER -> 1

\* C13: an operation in which serialization or storage failed wrote all the
\* responses of its type, none of them an error caused by the failure, its
\* handler returned, no record was handed to storage twice, and the connection
\* goes on to its next request
C13_FailuresNotObservable ==
    (op.type # "none" /\ Failed) =>
        /\ Returned
        /\ ~panicked
        /\ Len(Writes) = FullReplies(op.type)
        /\ \A k \in 1..Len(Writes) :
              Writes[k].res.code \in {"", "success", "compareTrue", "unwillingToPerform"}
        /\ \A i \in 1..Len(Stores), j \in 1..Len(Stores) :
              i # j => Stores[i].call # Stores[j].call
        /\ Len(Stores) <= 2
        /\ ENABLED ReadNext

\* a Search with an identifier whose two storage calls both failed
C13_Witness ==
    /\ op.type = "Search"
    /\ Len(Writes) = 2
    /\ Len(Stores) = 2
    /\ ~Stores[1].ok
    /\ ~Stores[2].ok

----------------------------------------------------------------------------
(* C14 *)

\* C14: a Delete request gets exactly one Delete response with result success,
\* its handler runs to its end, and the transcript recorded is "Type=Delete"
\* and "Entity=" followed by the entry the request names
C14_DeleteAnswered ==
    op.type = "Delete" =>
        /\ Returned
        /\ Len(Writes) = 1
        /\ Writes[1].res.kind = "DelResponse"
        /\ Writes[1].res.code = "success"
        /\ \A k \in 1..Len(Stores) :
              Stores[k].rec.RawRequest = << <<"Type=Delete">>, <<"Entity=">> \o op.entry >>

----------------------------------------------------------------------------
(* C15 *)

\* the positions of the labels of TokenLen characters
TokenIndexes(parts) == { k \in 1..Len(parts) : Len(parts[k]) = TokenLen }

\* C15: when the matched substring has labels of 33 characters, the last of
\* them is the uniqueID, the fullID is the labels up to and including it joined
\* by dots, and that label is not one of the labels of the root domain
C15_LastTokenWins ==
    op.type = "Search" =>
        LET parts == SearchParts(op.base, Domain)
        IN  TokenIndexes(parts) # {} =>
                LET last == Max(TokenIndexes(parts))
                IN  /\ op.uniqueID = parts[last]
                    /\ op.fullID = Join(SubSeq(parts, 1, last))
                    /\ last <= Len(parts) - Len(Split(Domain))

----------------------------------------------------------------------------
(* C16 *)

\* C16: a Search writes exactly the synthetic entry and then the done response
\* with result success; with an identifier the identified record goes to
\* AddInteraction and then, whatever became of that, the transcript record goes
\* to AddInteractionWithId, both with the same RawRequest and RemoteAddress
\* (a record that cannot be serialized is not handed over)
C16_SearchRepliesAndRecords ==
    op.type = "Search" =>
        /\ Len(Writes) = 2
        /\ events[1] = Writes[1]
        /\ events[2] = Writes[2]
        /\ Writes[1].res.kind = "SearchResultEntry"
        /\ Writes[2].res.kind = "SearchResultDone"
        /\ Writes[2].res.code = "success"
        /\ op.uniqueID = <<>> =>
              /\ Len(events) = 3
              /\ events[3].e \in {"store", "encodeFailed"}
              /\ OnlyFallback
        /\ op.uniqueID # <<>> =>
              /\ Len(events) = 4
              /\ events[3].e \in {"store", "encodeFailed"}
              /\ events[3].e = "store" =>
                    /\ events[3].call = "AddInteraction"
                    /\ events[3].rec.UniqueID = op.uniqueID
              /\ events[4].e \in {"store", "encodeFailed"}
              /\ events[4].e = "store" =>
                    /\ events[4].call = "AddInteractionWithId"
                    /\ events[4].key = Token
              /\ (events[3].e = "store" /\ events[4].e = "store") =>
                    /\ events[3].rec.RawRequest = events[4].rec.RawRequest
                    /\ events[3].rec.RemoteAddress = events[4].rec.RemoteAddress

\* a Search whose identified record was refused by the storage and whose
\* transcript record was stored all the same
C16_Witness ==
    /\ op.type = "Search"
    /\ op.uniqueID # <<>>
    /\ Len(events) = 4
    /\ events[3].e = "store"
    /\ ~events[3].ok
    /\ events[4].e = "store"
    /\ events[4].ok
    /\ events[4].rec.RawRequest = events[3].rec.RawRequest

----------------------------------------------------------------------------
(* C17 *)

\* C17: handleAbandon writes nothing; when the request it names is in flight
\* that request becomes abandoned and every other request stays as it was,
\* otherwise no request changes; the record handed to the fallback call has the
\* transcript "Type=Abandon"
C17_AbandonFrame ==
    [][ (op.type = "none" /\ op'.type = "Abandon") =>
            LET evs == events'
                target == op'.target
            IN  /\ \A k \in 1..Len(evs) : evs[k].e # "write"
                /\ IF target \in DOMAIN requests /\ requests[target] # "none"
                   THEN /\ requests'[target] = "abandoned"
                        /\ \A i \in DOMAIN requests \ {target} : requests'[i] = requests[i]
                   ELSE requests' = requests
                /\ Len(evs) = 1
                /\ evs[1].e \in {"store", "encodeFailed"}
                /\ evs[1].e = "store" =>
                      /\ evs[1].call = "AddInteractionWithId"
                      /\ evs[1].key = Token
                      /\ evs[1].rec.RawRequest = << <<"Type=Abandon">> >>
                /\ conn' = conn
      ]_vars

\* one of two requests in flight was abandoned, the other is still in flight
C17_Witness ==
    /\ op.type = "Abandon"
    /\ op.target \in DOMAIN op.before
    /\ op.before[op.target] = "inflight"
    /\ requests[op.target] = "abandoned"
    /\ \E other \in DOMAIN op.before \ {op.target} :
          op.before[other] = "inflight" /\ requests[other] = "inflight"
    /\ Len(Writes) = 0
    /\ Len(Stores) = 1

----------------------------------------------------------------------------
(* C18 *)

\* the result code each type of operation is answered with
ResultCode(type) ==
    CASE type = "Compare" -> "compareTrue"
      [] type \in {"Bind", "Add", "Modify", "WhoAmI", "Extended", "Search"} -> "success"

\* C18: in every state, whatever was handled before, the response that ends a
\* Bind, Compare, Add, Modify, WhoAmI, generic Extended or Search operation has
\* the result code of its type, whatever the request contains (the entry a
\* Search writes first has no result code)
C18_ResultByTypeOnly ==
    op.type \in {"Bind", "Compare", "Add", "Modify", "WhoAmI", "Extended", "Search"} =>
        /\ Writes # <<>>
        /\ Writes[Len(Writes)].res.code = ResultCode(op.type)
        /\ \A k \in 1..(Len(Writes) - 1) : Writes[k].res.code = ""

\* a Bind with a user and an empty password, on a connection that handled a
\* StartTLS before, answered with success
C18_Witness ==
    /\ op.type = "Bind"
    /\ op.name # <<>>
    /\ op.pass = <<>>
    /\ conn > 0
    /\ Len(Writes) = 1
    /\ Writes[1].res.code = "success"

----------------------------------------------------------------------------
(* C19 *)

\* t occurs in s
OccursIn(t, s) ==
    \E i \in 1..(Len(s) - Len(t) + 1) : SubSeq(s, i, i + Len(t) - 1) = t

\* C19: the uniqueID is empty or 33 characters long, is made of characters of
\* [a-z0-9-], and occurs in the base object; the fullID is empty exactly when
\* the uniqueID is; a match without a label of 33 characters leaves both empty
C19_UniqueIdShape ==
    op.type = "Search" =>
        /\ op.uniqueID = <<>> \/ Len(op.uniqueID) = TokenLen
        /\ \A k \in 1..Len(op.uniqueID) : op.uniqueID[k] \in LabelChars
        /\ op.uniqueID # <<>> => OccursIn(op.uniqueID, op.base)
        /\ (op.fullID = <<>>) <=> (op.uniqueID = <<>>)
        /\ TokenIndexes(SearchParts(op.base, Domain)) = {} =>
              op.uniqueID = <<>> /\ op.fullID = <<>>

----------------------------------------------------------------------------
(* C20 *)

\* C20: a call of a method of the logger interface writes nothing to the
\* connection, hands exactly one record to the fallback call (none when it
\* cannot be serialized), with Protocol "ldap", no RemoteAddress and no
\* UniqueID, and returns: the connection goes on to its next request
C20_LoggerRecords ==
    op.type = "Log" =>
        /\ Returned
        /\ ~panicked
        /\ Len(Writes) = 0
        /\ Len(Stores) = (IF Encoded THEN 1 ELSE 0)
        /\ OnlyFallback
        /\ \A k \in 1..Len(Stores) :
              /\ Stores[k].rec.Protocol = "ldap"
              /\ Stores[k].rec.RemoteAddress = <<>>
              /\ Stores[k].rec.UniqueID = <<>>
        /\ ENABLED ReadNext

\* a Fatal call with a value, recorded
C20_Witness ==
    /\ op.type = "Log"
    /\ op.method = "Fatal"
    /\ op.v # <<>>
    /\ Len(Stores) = 1
    /\ Stores[1].rec.RemoteAddress = <<>>
    /\ ~panicked

====
